---- MODULE Spec2Model ----
(***************************************************************************)
(* Session authentication of src/streamlit_app.py: the request_token /    *)
(* access_token exchange, the authenticated client built on every script  *)
(* run, logout, the brokerage calls of the sidebar and the tabs, the      *)
(* cached instruments loader and the KiteTicker websocket with its        *)
(* background thread.                                                      *)
(*                                                                         *)
(* One Streamlit session is modelled in full.  A script run is one        *)
(* action, cut only at the blocking provider call generate_session and at *)
(* st.rerun().  The provider is the environment: what it answers is an    *)
(* input.  Separate specifications add the configuration check of the     *)
(* secrets file (SpecConfig), a second browser tab with a session state   *)
(* of its own on the same URL and the same st.cache_data store (SpecTabs) *)
(* and the restriction interval check is_effective (SpecInterval).        *)
(*                                                                         *)
(* The button handlers of the tabs have specifications of their own on    *)
(* top of the login flow: the orders tab (SpecOrders), the market data    *)
(* helpers and their callers (SpecMarket), repeated starts and stops of   *)
(* the ticker, with and without fairness of the thread (SpecTicker,       *)
(* SpecTickerFair), and the tick buffer (SpecTicks).  The pure function   *)
(* find_instrument_token is checked on every small table (SpecLookup).    *)
(* The search page src/app.py is a script of its own (SpecSearch).        *)
(***************************************************************************)
EXTENDS Integers, Sequences, FiniteSets, TLC

\* ---------------------------------------------------------------- bounds
MaxTokens  == 2   \* request tokens the redirect callback can deliver
MaxAccess  == 1   \* access tokens the provider can issue
MaxTickers == 1   \* KiteTicker objects created over the session
MaxDay     == 2   \* days the bounds of an interval and the date checked can name
MaxLen     == 5   \* tokens of an interval text
MaxTag     == 21  \* characters of the longest tag typed into the order form
MaxRows    == 2   \* rows of an instruments table
MaxQuery   == 3   \* characters of a search query
MaxStarts  == 2   \* presses of "Start Ticker" in the ticker specifications
MaxEvents  == 3   \* on_ticks and on_error callbacks of one ticker

\* Python's None for tokens, ids and clients.
None == 0

AccessTokens  == 1..MaxAccess
TickerIds     == 1..MaxTickers
StartIds      == 1..MaxStarts

\* Exchanges offered by the instrument selectors (one of the five).
Exchanges == {"NSE"}

VARIABLES
    session_state,   \* st.session_state: a function from the keys present to values
    query_params,    \* request_token carried by the page URL (None: absent)
    pc,              \* "idle" | "load" | "exchanging" | "rerun"
    k,               \* the authenticated client of the last run
    inflight,        \* request_token handed to generate_session, not answered yet
    replay,          \* TRUE when the token in flight had been submitted before
    calls,           \* brokerage calls issued by the last script run
    cache,           \* st.cache_data store of load_instruments: exchange -> result
    tickers,         \* KiteTicker objects: id -> [access_token, ws]
    threads,         \* run_ticker threads: id -> position
    \* provider side and history
    next_request,    \* next request token the redirect callback delivers
    submitted,       \* request tokens the program has sent to the provider
    resubmitted,     \* TRUE once a request token was sent to the provider again
    regranted,       \* TRUE once a token submitted before yielded an access token
    next_access,     \* next access token the provider issues
    last_data,       \* response of the last answered exchange
    revoked,         \* access tokens the provider answers with 401/403
    since_logout,    \* TRUE when an exchange succeeded since the last logout
    auth_rejected,   \* TRUE once a call with the stored credential got 401/403
    exchanged,       \* request tokens that were exchanged for an access token
    \* configuration and what the last run rendered
    secrets,         \* st.secrets["kite"]: a function from the keys present to values
    page,            \* "blank" | "config_error" | "login": head of the last run
    report,          \* error shown by the except block of the exchange
    tab2,            \* a second browser tab on the same URL: [pc, state, inflight, replay]
    iv,              \* a restriction interval check: [text, date, result]
    handled,         \* what the handler of the last form or button did
    lookup,          \* a find_instrument_token call: [df, symbol, exchange, result]
    search           \* the search page of app.py

vars == <<session_state, query_params, pc, k, inflight, replay, calls, cache,
          tickers, threads, next_request, submitted, resubmitted, regranted,
          next_access, last_data, revoked, since_logout, auth_rejected,
          exchanged, secrets, page, report, tab2, iv, handled, lookup, search>>

\* The forms and pure functions checked on their own.
forms == <<handled, lookup, search>>

\* ------------------------------------------------------------- helpers
EmptyState == [key \in {} |-> None]

Has(key) == key \in DOMAIN session_state

\* dict.get(key) of the provider's response.
DataGet(data, key) == IF key \in DOMAIN data THEN data[key] ELSE None

\* st.session_state[key] = value
Store(state, key, value) ==
    [x \in DOMAIN state \cup {key} |-> IF x = key THEN value ELSE state[x]]

NoClient == [exists |-> FALSE, access_token |-> None]

\* ------------------------------------------------------------ provider
\* Access tokens issued so far.
Issued == 1..(next_access - 1)

\* Response of generate_session that carries an access_token.
FullData(a) == [access_token |-> a, user_id |-> 1]

\* Response of generate_session without an access_token.
BareData == [user_id |-> 1]

\* No exchange has been answered yet.
NoData == [key \in {} |-> None]

\* --------------------------------------------------------- configuration
SecretKeys == {"api_key", "api_secret", "redirect_uri"}

\* A complete [kite] section of the secrets file.
GoodSecrets == [key \in SecretKeys |-> "set"]

\* Truth value of kite_conf.get(key): a missing key gives None, an empty
\* string is falsy as well (lines 29-31, 37).
Truthy(conf, key) == key \in DOMAIN conf /\ conf[key] # ""

\* Contents the [kite] section can have: each key missing, empty or set.  A
\* missing section gives three None values (lines 32-35), as no key does.
SecretsValues == UNION {[D -> {"", "set"}] : D \in SUBSET SecretKeys}

\* ConfigOk that tests the api_key only.
ConfigOk_KeyOnly == Truthy(secrets, "api_key")

\* Line 37 negated: API_KEY, API_SECRET and REDIRECT_URI are all truthy.
ConfigOk == \A key \in SecretKeys : Truthy(secrets, key)

\* Nothing is shown by the except block of the exchange.
NoReport == [kind |-> "none", cause |-> "none"]

\* The second tab is not open.
ClosedTab == [pc |-> "closed", state |-> EmptyState, inflight |-> None,
              replay |-> FALSE]

\* No interval check has been asked for.
NoCheck == [text |-> <<>>, date |-> 1, result |-> "none"]

\* What a run shows when none of the form buttons was pressed in it.
NoForm == [button |-> "none", inputs |-> <<>>, sent |-> <<>>, shown |-> "none"]

\* No lookup has been asked for.
NoLookup == [df |-> <<>>, symbol |-> "", exchange |-> "", called |-> FALSE,
             result |-> None]

\* The search page has not run.
NoSearch == [secrets |-> [indiav1_api_url |-> "", indiav1_jwt_token |-> "",
                          indiav1_user_id |-> ""],
             submitted |-> FALSE, query |-> <<>>, sent |-> <<>>,
             sidebar |-> "none", shown |-> "none"]

InitSession ==
    /\ session_state = EmptyState
    /\ query_params = None
    /\ pc = "idle"
    /\ k = NoClient
    /\ inflight = None
    /\ replay = FALSE
    /\ calls = {}
    /\ cache = [ex \in {} |-> "empty"]
    /\ tickers = <<>>
    /\ threads = <<>>
    /\ next_request = 1
    /\ submitted = {}
    /\ resubmitted = FALSE
    /\ regranted = FALSE
    /\ next_access = 1
    /\ last_data = NoData
    /\ revoked = {}
    /\ since_logout = FALSE
    /\ auth_rejected = FALSE
    /\ exchanged = {}
    /\ secrets = GoodSecrets
    /\ page = "blank"
    /\ report = NoReport
    /\ tab2 = ClosedTab
    /\ handled = NoForm

Init == InitSession /\ iv = NoCheck /\ lookup = NoLookup /\ search = NoSearch

\* ------------------------------------------------- environment actions
\* The provider redirects the browser to the redirect URI with a fresh
\* request_token in the query parameters; the page load starts a script run.
Redirect ==
    /\ pc = "idle"
    /\ next_request <= MaxTokens
    /\ query_params' = next_request
    /\ next_request' = next_request + 1
    /\ pc' = "load"
    /\ UNCHANGED <<session_state, k, inflight, replay, calls, cache, tickers,
                   threads, submitted, resubmitted, regranted,
                   next_access, last_data, revoked, since_logout, auth_rejected>>
    /\ UNCHANGED <<page, report, exchanged, secrets, tab2, iv, forms>>

\* The user opens the application without a request_token in the URL; the
\* page load starts a script run.
OpenPlain ==
    /\ pc = "idle"
    /\ query_params # None
    /\ query_params' = None
    /\ pc' = "load"
    /\ UNCHANGED <<session_state, k, inflight, replay, calls, cache, tickers,
                   threads, next_request, submitted, resubmitted, regranted,
                   next_access, last_data, revoked, since_logout, auth_rejected>>
    /\ UNCHANGED <<page, report, exchanged, secrets, tab2, iv, forms>>

\* The provider invalidates an access token it issued (expiry, revocation):
\* calls carrying it are answered 401/403 from now on.
ProviderRevoke(a) ==
    /\ a \in Issued \ revoked
    /\ Has("kite_access_token") /\ session_state["kite_access_token"] = a
    /\ revoked' = revoked \cup {a}
    /\ UNCHANGED <<session_state, query_params, pc, k, inflight, replay, calls,
                   cache, tickers, threads, next_request, submitted, resubmitted,
                   regranted, next_access, last_data, since_logout,
                   auth_rejected>>
    /\ UNCHANGED <<page, report, exchanged, secrets, tab2, iv, forms>>

\* ------------------------------------------------------- token exchange
\* request_token read from the URL (lines 53-60).
request_token == query_params

\* Guard of the exchange block (line 63).
NeedsExchange == request_token # None /\ ~Has("kite_access_token")

\* Lines 63-66: the script run reaches generate_session and hands the
\* request_token to the provider.
SubmitExchange ==
    /\ pc \in {"idle", "rerun", "load"}
    /\ ConfigOk
    /\ NeedsExchange
    /\ pc' = "exchanging"
    /\ inflight' = request_token
    /\ replay' = (request_token \in submitted)
    /\ submitted' = submitted \cup {request_token}
    /\ resubmitted' = (resubmitted \/ request_token \in submitted)
    /\ k' = NoClient
    /\ calls' = {}
    /\ UNCHANGED <<session_state, query_params, cache, tickers, threads,
                   next_request, regranted, next_access, last_data,
                   revoked, since_logout, auth_rejected>>
    /\ page' = "login"
    /\ report' = NoReport
    /\ UNCHANGED <<exchanged, secrets, tab2, iv, forms>>

\* StoreSession without line 68: only the login response is kept.
StoreSession_NoToken(state, data) == Store(state, "kite_login_response", data)

\* Lines 67-72: generate_session returned `data`; both keys are stored and
\* the script asks for a rerun.
StoreSession(state, data) ==
    Store(Store(state, "kite_access_token", DataGet(data, "access_token")),
          "kite_login_response", data)

ExchangeReturns(data) ==
    /\ pc = "exchanging"
    /\ session_state' = StoreSession(session_state, data)
    /\ pc' = "rerun"
    /\ inflight' = None
    /\ replay' = FALSE
    /\ last_data' = data
    /\ since_logout' = TRUE
    /\ auth_rejected' = FALSE
    /\ UNCHANGED <<query_params, k, calls, cache, tickers, threads, next_request,
                   submitted, resubmitted, revoked>>
    /\ UNCHANGED <<page, report, secrets, tab2, iv, forms>>

\* The provider accepts the request_token and issues a new access token.
ExchangeOk ==
    /\ next_access <= MaxAccess
    /\ ExchangeReturns(FullData(next_access))
    /\ next_access' = next_access + 1
    /\ regranted' = (regranted \/ replay)
    /\ exchanged' = exchanged \cup {inflight}

\* The provider answers without an access_token in the response.
ExchangeNoToken ==
    /\ ExchangeReturns(BareData)
    /\ UNCHANGED <<next_access, regranted, exchanged>>

\* Why generate_session raised: the api_key or api_secret is wrong, the
\* request_token is invalid, expired or used, or the provider was not reached.
Causes == {"config", "invalid_token", "transient"}

\* Lines 73-74: every exception is caught as Exception and shown as
\* "Failed to generate session: {e}"; the cause is in the text of e only.
FailureReport(cause) == [kind |-> "Failed to generate session", cause |-> cause]

\* ExchangeFail that keeps an empty credential after the error.
ExchangeFail_StoresNone ==
    /\ pc = "exchanging"
    /\ pc' = "idle"
    /\ inflight' = None
    /\ replay' = FALSE
    /\ session_state' = Store(session_state, "kite_access_token", None)
    /\ \E cause \in Causes : report' = FailureReport(cause)
    /\ UNCHANGED <<page, exchanged, secrets, tab2, iv, forms>>
    /\ UNCHANGED <<query_params, k, calls, cache, tickers, threads,
                   next_request, submitted, resubmitted, regranted,
                   next_access, last_data, revoked, since_logout, auth_rejected>>

\* Lines 73-75: generate_session raised; the error is shown and the run stops.
ExchangeFail ==
    /\ pc = "exchanging"
    /\ pc' = "idle"
    /\ inflight' = None
    /\ replay' = FALSE
    /\ \E cause \in Causes : report' = FailureReport(cause)
    /\ UNCHANGED <<page, exchanged, secrets, tab2, iv, forms>>
    /\ UNCHANGED <<session_state, query_params, k, calls, cache, tickers, threads,
                   next_request, submitted, resubmitted, regranted,
                   next_access, last_data, revoked, since_logout, auth_rejected>>

\* ---------------------------------------------------- authenticated client
\* Lines 80-84: k is a client carrying the stored access token when the key
\* is present in the session, None otherwise.
Client(state) ==
    IF "kite_access_token" \in DOMAIN state
    THEN [exists |-> TRUE, access_token |-> state["kite_access_token"]]
    ELSE NoClient

\* Outcome of client.<op>(): on None the attribute lookup fails before
\* anything is sent; a request that reaches the provider (up) is answered
\* 401/403 when its token is missing or invalidated.
ApiResult(client, up) ==
    IF ~client.exists THEN "attribute_error"
    ELSE IF ~up THEN "error"
    ELSE IF client.access_token = None \/ client.access_token \in revoked
         THEN "rejected"
    ELSE "ok"

\* Call that goes out even when the client is None.
Call_Unguarded(client, op) ==
    {[op |-> op, access_token |-> client.access_token, stale |-> auth_rejected]}

\* The request a call puts on the wire (nothing when the client is None);
\* stale: the credential had already been answered 401/403 in an earlier run.
Call(client, op) ==
    IF client.exists
    THEN {[op |-> op, access_token |-> client.access_token, stale |-> auth_rejected]}
    ELSE {}

\* A value of the script between two statements: the session state, the
\* st.cache_data store and the calls issued so far in this run.
Ctx(state, store, issued) == [ss |-> state, cache |-> store, calls |-> issued]

\* Lines 89-105: load_instruments(_kite_instance, exchange) under
\* st.cache_data.  The client argument is excluded from the cache key, so a
\* stored result for the exchange is returned without running the body; the
\* body returns an empty frame on any exception and that result is stored.
load_instruments(ctx, client, exchange, up) ==
    IF exchange \in DOMAIN ctx.cache
    THEN [df |-> ctx.cache[exchange], ctx |-> ctx]
    ELSE LET df == IF ApiResult(client, up) = "ok" THEN "data" ELSE "empty"
         IN  [df |-> df,
              ctx |-> Ctx(ctx.ss, Store(ctx.cache, exchange, df),
                          ctx.calls \cup Call(client, "instruments"))]

\* Lines 240-250: sidebar account info, under `if k`.
SidebarProfile(ctx, client) ==
    IF ~client.exists THEN ctx
    ELSE Ctx(ctx.ss, ctx.cache, ctx.calls \cup Call(client, "profile"))

\* Lines 264-271: sidebar "Fetch Current Holdings".
FetchHoldings(ctx, client, up) ==
    Ctx(IF ApiResult(client, up) = "ok"
        THEN Store(ctx.ss, "holdings_data", "data") ELSE ctx.ss,
        ctx.cache,
        ctx.calls \cup Call(client, "holdings"))

\* Lines 292-321: the dashboard tab, rendered on every run with a client.
Dashboard(ctx, client) ==
    IF ~client.exists THEN ctx
    ELSE Ctx(ctx.ss, ctx.cache,
             ctx.calls \cup Call(client, "profile") \cup Call(client, "margins")
                       \cup Call(client, "ltp"))

\* Lines 632-634 and 1577-1580: the two "Load Instruments" buttons store
\* whatever load_instruments returns.
LoadInstrumentsButton(ctx, client, exchange, up) ==
    LET r == load_instruments(ctx, client, exchange, up)
    IN  Ctx(Store(r.ctx.ss, "instruments_df", r.df), r.ctx.cache, r.ctx.calls)

\* Default of a key that is not in the state yet (lines 1378-1387).
SetDefault(state, key, value) ==
    IF key \in DOMAIN state THEN state ELSE Store(state, key, value)

\* Lines 1374-1398: head of the websocket tab, rendered on every run with a
\* client: defaults of the kt_* keys, then the NSE instruments autoload.
WsTabHead(ctx, client, up) ==
    IF ~client.exists THEN ctx
    ELSE LET s1 == SetDefault(ctx.ss, "kt_ticker", None)
             s2 == SetDefault(s1, "kt_thread", None)
             s3 == SetDefault(s2, "kt_running", FALSE)
             s4 == SetDefault(s3, "kt_ticks", <<>>)
             s5 == SetDefault(s4, "kt_live_prices", "empty")
             c1 == Ctx(s5, ctx.cache, ctx.calls)
         IN  IF "instruments_df" \notin DOMAIN s5 \/ s5["instruments_df"] = "empty"
             THEN LET r == load_instruments(c1, client, "NSE", up)
                  IN  IF r.df # "empty"
                      THEN Ctx(Store(r.ctx.ss, "instruments_df", r.df),
                               r.ctx.cache, r.ctx.calls)
                      ELSE r.ctx
             ELSE c1

\* ------------------------------------------------------------ script runs
\* A script run may start when no run is in progress; the run that st.rerun()
\* or a page load asked for starts with no button pressed.  Runs that reach this point did
\* not enter the exchange block.
CanRun(pressed) ==
    /\ pc \in {"idle", "rerun", "load"}
    /\ ConfigOk
    /\ pressed => pc = "idle"
    /\ ~NeedsExchange

\* Lines 80-84 and 240-250: client creation and the sidebar profile call.
AfterSidebar == SidebarProfile(Ctx(session_state, cache, {}), Client(session_state))

\* Lines 262-1398: from the sidebar's quick data to the head of the websocket
\* tab, with the button pressed in this run (if any); up: the provider is
\* reachable during this run.
UpToWsTab(button, exchange, up) ==
    LET client == Client(session_state)
        c2 == IF button = "holdings"
              THEN FetchHoldings(AfterSidebar, client, up) ELSE AfterSidebar
        c3 == Dashboard(c2, client)
        c5 == IF button = "load_market"
              THEN LoadInstrumentsButton(c3, client, exchange, up) ELSE c3
    IN  WsTabHead(c5, client, up)

\* Lines 1572-1586: the instruments tab; its button is not under `if not k`.
InstTab(ctx, button, exchange, up) ==
    IF button = "load_inst"
    THEN LoadInstrumentsButton(ctx, Client(session_state), exchange, up)
    ELSE ctx

\* Some call of the run was answered 401/403.
Rejected(ctx, up) ==
    ctx.calls # {} /\ ApiResult(Client(session_state), up) = "rejected"

\* The run reached the end of the script.
EndRun(ctx, up) ==
    /\ session_state' = ctx.ss
    /\ cache' = ctx.cache
    /\ calls' = ctx.calls
    /\ k' = Client(session_state)
    /\ pc' = "idle"
    /\ auth_rejected' = (auth_rejected \/ Rejected(ctx, up))
    /\ UNCHANGED <<query_params, inflight, replay, next_request, submitted,
                   resubmitted, regranted, next_access, last_data,
                   revoked, since_logout>>
    /\ page' = "login"
    /\ report' = NoReport
    /\ UNCHANGED <<exchanged, secrets, tab2, iv, lookup, search>>

\* A run with no button pressed (first load, rerun, any widget change).
RunPlain ==
    /\ CanRun(FALSE)
    /\ \E up \in BOOLEAN :
         EndRun(InstTab(UpToWsTab("none", "NSE", up), "none", "NSE", up), up)
    /\ handled' = NoForm
    /\ UNCHANGED <<tickers, threads>>

\* Sidebar "Fetch Current Holdings" (lines 264-271), shown only with a client.
RunFetchHoldings ==
    /\ CanRun(TRUE)
    /\ Client(session_state).exists
    /\ \E up \in BOOLEAN :
         EndRun(InstTab(UpToWsTab("holdings", "NSE", up), "none", "NSE", up), up)
    /\ handled' = NoForm
    /\ UNCHANGED <<tickers, threads>>

\* Market tab "Load Instruments into Cache" (lines 590-638), under `if not k`.
RunLoadMarket ==
    /\ CanRun(TRUE)
    /\ Client(session_state).exists
    /\ \E up \in BOOLEAN, exchange \in Exchanges :
         EndRun(InstTab(UpToWsTab("load_market", exchange, up), "none", "NSE", up), up)
    /\ handled' = NoForm
    /\ UNCHANGED <<tickers, threads>>

\* Instruments tab "Load Instruments for Selected Exchange (cached)"
\* (lines 1572-1586), shown with or without a client.
RunLoadInstruments ==
    /\ CanRun(TRUE)
    /\ \E up \in BOOLEAN, exchange \in Exchanges :
         EndRun(InstTab(UpToWsTab("none", "NSE", up), "load_inst", exchange, up), up)
    /\ handled' = NoForm
    /\ UNCHANGED <<tickers, threads>>

\* st.session_state.pop(key, None)
Pop(state, key) == [x \in DOMAIN state \ {key} |-> state[x]]

\* ClearSession without the loop of lines 255-256.
ClearSession_TwoKeys(state) ==
    Pop(Pop(state, "kite_access_token"), "kite_login_response")

\* Lines 253-256: the two credential keys are popped, then every key left.
ClearSession(state) ==
    LET s1 == Pop(Pop(state, "kite_access_token"), "kite_login_response")
    IN  [x \in DOMAIN s1 \ DOMAIN s1 |-> s1[x]]

\* Sidebar "Logout (clear token)" (lines 252-258): every key is popped and
\* the script asks for a rerun; nothing after the sidebar runs.
RunLogout ==
    /\ CanRun(TRUE)
    /\ Client(session_state).exists
    /\ calls' = AfterSidebar.calls
    /\ cache' = AfterSidebar.cache
    /\ session_state' = ClearSession(session_state)
    /\ k' = Client(session_state)
    /\ pc' = "rerun"
    /\ since_logout' = FALSE
    /\ auth_rejected' = FALSE
    /\ UNCHANGED <<query_params, inflight, replay, tickers, threads, next_request,
                   submitted, resubmitted, regranted, next_access,
                   last_data, revoked>>
    /\ page' = "login"
    /\ report' = NoReport
    /\ UNCHANGED <<exchanged, secrets, tab2, iv, forms>>

\* The secrets file is edited while no script run is in progress: one key
\* is removed, emptied or set.
EditSecrets ==
    /\ pc = "idle"
    /\ \E conf \in SecretsValues \ {secrets} :
         /\ \E key \in SecretKeys :
              \A other \in SecretKeys \ {key} :
                  /\ other \in DOMAIN conf <=> other \in DOMAIN secrets
                  /\ other \in DOMAIN conf => conf[other] = secrets[other]
         /\ secrets' = conf
    /\ UNCHANGED <<session_state, query_params, pc, k, inflight, replay, calls,
                   cache, tickers, threads, next_request, submitted, resubmitted,
                   regranted, next_access, last_data, revoked, since_logout,
                   auth_rejected, exchanged, page, report, tab2, iv, forms>>

\* Lines 37-40: a script run with an incomplete configuration shows the
\* error and st.stop() ends it before the login URL of line 46 is built.
RunConfigError ==
    /\ pc \in {"idle", "rerun", "load"}
    /\ ~ConfigOk
    /\ page' = "config_error"
    /\ report' = NoReport
    /\ pc' = "idle"
    /\ k' = NoClient
    /\ calls' = {}
    /\ UNCHANGED <<session_state, query_params, inflight, replay, cache, tickers,
                   threads, next_request, submitted, resubmitted, regranted,
                   next_access, last_data, revoked, since_logout, auth_rejected,
                   exchanged, secrets, tab2, iv, forms>>

\* ------------------------------------------------------- second browser tab
\* The page is reloaded or opened in a second tab on the same URL.  The new
\* tab gets a st.session_state of its own, empty, and runs the same script;
\* the first tab's run, if one is in progress, goes on.
Tab2Vars == <<session_state, pc, k, inflight, replay, calls, cache, tickers,
              threads, query_params, next_request, last_data, revoked,
              since_logout, auth_rejected, secrets, page, report, iv, forms>>

OpenTab2 ==
    /\ tab2.pc = "closed"
    /\ tab2' = [ClosedTab EXCEPT !.pc = "load"]
    /\ UNCHANGED <<Tab2Vars, submitted, resubmitted, regranted, next_access,
                   exchanged>>

\* Guard of the exchange block (line 63) in a tab whose session is `state`.
NeedsExchangeIn(state) ==
    request_token # None /\ "kite_access_token" \notin DOMAIN state

\* Lines 63-66 in the second tab.
Tab2SubmitExchange ==
    /\ tab2.pc = "load"
    /\ ConfigOk
    /\ NeedsExchangeIn(tab2.state)
    /\ tab2' = [tab2 EXCEPT !.pc = "exchanging", !.inflight = request_token,
                            !.replay = (request_token \in submitted)]
    /\ submitted' = submitted \cup {request_token}
    /\ resubmitted' = (resubmitted \/ request_token \in submitted)
    /\ UNCHANGED <<Tab2Vars, regranted, next_access, exchanged>>

\* Lines 67-72 in the second tab, followed by the run that st.rerun() starts.
Tab2ExchangeReturns(data) ==
    /\ tab2.pc = "exchanging"
    /\ tab2' = [tab2 EXCEPT !.pc = "idle", !.inflight = None, !.replay = FALSE,
                            !.state = StoreSession(tab2.state, data)]
    /\ UNCHANGED <<Tab2Vars, submitted, resubmitted>>

Tab2ExchangeOk ==
    /\ next_access <= MaxAccess
    /\ Tab2ExchangeReturns(FullData(next_access))
    /\ next_access' = next_access + 1
    /\ regranted' = (regranted \/ tab2.replay)
    /\ exchanged' = exchanged \cup {tab2.inflight}

Tab2ExchangeNoToken ==
    /\ Tab2ExchangeReturns(BareData)
    /\ UNCHANGED <<next_access, regranted, exchanged>>

\* Lines 73-75 in the second tab.
Tab2ExchangeFail ==
    /\ tab2.pc = "exchanging"
    /\ tab2' = [tab2 EXCEPT !.pc = "idle", !.inflight = None, !.replay = FALSE]
    /\ UNCHANGED <<Tab2Vars, submitted, resubmitted, regranted, next_access,
                   exchanged>>

\* A run of the second tab that does not enter the exchange block.
Tab2Run ==
    /\ tab2.pc = "load"
    /\ ConfigOk
    /\ ~NeedsExchangeIn(tab2.state)
    /\ tab2' = [tab2 EXCEPT !.pc = "idle"]
    /\ UNCHANGED <<Tab2Vars, submitted, resubmitted, regranted, next_access,
                   exchanged>>

\* Lines 1572-1580 in the second tab: "Load Instruments for Selected Exchange
\* (cached)".  st.cache_data keeps one store per process, shared by every
\* session; the tab's own client is passed to load_instruments.
Tab2LoadInstruments ==
    /\ tab2.pc = "idle"
    /\ ConfigOk
    /\ \E up \in BOOLEAN, exchange \in Exchanges :
         LET r == load_instruments(Ctx(tab2.state, cache, {}),
                                   Client(tab2.state), exchange, up)
         IN  /\ cache' = r.ctx.cache
             /\ tab2' = [tab2 EXCEPT !.state = Store(tab2.state, "instruments_df", r.df)]
    /\ UNCHANGED <<session_state, pc, k, inflight, replay, calls, tickers,
                   threads, query_params, next_request, last_data, revoked,
                   since_logout, auth_rejected, secrets, page, report, iv, forms,
                   submitted, resubmitted, regranted, next_access, exchanged>>

\* The second tab is closed; its session state is dropped.
CloseTab2 ==
    /\ tab2.pc = "idle"
    /\ tab2' = ClosedTab
    /\ UNCHANGED <<Tab2Vars, submitted, resubmitted, regranted, next_access,
                   exchanged>>

\* ------------------------------------------------ restriction interval check
Days == 1..MaxDay

\* ISO text of a day.
ISO(d) == "2025-01-0" \o ToString(d)

DateTexts == {ISO(d) : d \in Days}

OpenBrackets == {"[", "("}

CloseBrackets == {"]", ")"}

\* An interval text is a sequence of tokens: brackets, commas and dates.
Tokens == OpenBrackets \cup CloseBrackets \cup {","} \cup DateTexts

Texts == UNION {[1..n -> Tokens] : n \in 0..MaxLen}

Commas(text) == {i \in 1..Len(text) : text[i] = ","}

\* Matches that accepts any token in the place of the closing bracket.
Matches_AnyClose(text) ==
    /\ Len(text) >= 3
    /\ text[1] \in OpenBrackets
    /\ text[Len(text)] # ","
    /\ Cardinality(Commas(text)) = 1

\* The bracketed two-field pattern: an opening bracket, a field, a comma, a
\* field and a closing bracket, the fields holding no comma.
Matches(text) ==
    /\ Len(text) >= 3
    /\ text[1] \in OpenBrackets
    /\ text[Len(text)] \in CloseBrackets
    /\ Cardinality(Commas(text)) = 1

\* A field that is one ISO date.
IsDate(field) == Len(field) = 1 /\ field[1] \in DateTexts

\* The day an ISO date names.
DateOf(field) == CHOOSE d \in Days : ISO(d) = field[1]

\* LowerOk that takes the lower bound as inclusive whatever the bracket.
LowerOk_Inclusive(open, lower, d) == lower = <<>> \/ DateOf(lower) <= d

\* The lower side: an empty field does not constrain, "[" includes the bound
\* and "(" excludes it.
LowerOk(open, lower, d) ==
    \/ lower = <<>>
    \/ IF open = "[" THEN DateOf(lower) <= d ELSE DateOf(lower) < d

\* The upper side: an empty field does not constrain, "]" includes the bound
\* and ")" excludes it.
UpperOk(close, upper, d) ==
    \/ upper = <<>>
    \/ IF close = "]" THEN d <= DateOf(upper) ELSE d < DateOf(upper)

\* is_effective that takes two empty fields as no constraint at all.
is_effective_Unbounded(interval_text, on_date) ==
    IF ~Matches(interval_text) THEN FALSE
    ELSE LET c     == CHOOSE i \in Commas(interval_text) : TRUE
             lower == SubSeq(interval_text, 2, c - 1)
             upper == SubSeq(interval_text, c + 1, Len(interval_text) - 1)
         IN  IF (lower # <<>> /\ ~IsDate(lower)) \/ (upper # <<>> /\ ~IsDate(upper))
             THEN FALSE
             ELSE /\ LowerOk(interval_text[1], lower, on_date)
                  /\ UpperOk(interval_text[Len(interval_text)], upper, on_date)

\* is_effective(interval_text, on_date): a text that does not match the
\* pattern, or whose non-empty field is not a date, is not in range; two
\* empty fields match nothing; otherwise the date is tested on each side.
is_effective(interval_text, on_date) ==
    IF ~Matches(interval_text) THEN FALSE
    ELSE LET c     == CHOOSE i \in Commas(interval_text) : TRUE
             lower == SubSeq(interval_text, 2, c - 1)
             upper == SubSeq(interval_text, c + 1, Len(interval_text) - 1)
         IN  IF lower = <<>> /\ upper = <<>> THEN FALSE
             ELSE IF (lower # <<>> /\ ~IsDate(lower)) \/ (upper # <<>> /\ ~IsDate(upper))
             THEN FALSE
             ELSE /\ LowerOk(interval_text[1], lower, on_date)
                  /\ UpperOk(interval_text[Len(interval_text)], upper, on_date)

\* An interval text and a date are given.
InitInterval ==
    /\ InitSession
    /\ lookup = NoLookup
    /\ search = NoSearch
    /\ \E text \in Texts, d \in Days :
         iv = [text |-> text, date |-> d, result |-> "none"]

\* The check is made and its answer kept.
Evaluate ==
    /\ iv.result = "none"
    /\ iv' = [iv EXCEPT !.result = IF is_effective(iv.text, iv.date)
                                   THEN "true" ELSE "false"]
    /\ UNCHANGED <<session_state, query_params, pc, k, inflight, replay, calls,
                   cache, tickers, threads, next_request, submitted, resubmitted,
                   regranted, next_access, last_data, revoked, since_logout,
                   auth_rejected, exchanged, secrets, page, report, tab2, forms>>

\* ------------------------------------------------------ instrument lookup
\* One-letter trading symbols and exchange names, in both cases.
Symbols == {"a", "A", "b"}

ExchangeNames == {"n", "N", "b"}

\* Instrument tokens of the provider's table.
InstrumentTokens == 1..2

\* str.upper() on the letters in use.
Upper(text) ==
    CASE text = "a" -> "A"
      [] text = "b" -> "B"
      [] text = "n" -> "N"
      [] OTHER -> text

\* Rows of kite.instruments() as the lookup reads them.
Rows == [exchange : ExchangeNames, tradingsymbol : Symbols,
         instrument_token : InstrumentTokens]

\* Instrument tables of up to MaxRows rows.
Tables == UNION {[1..n -> Rows] : n \in 0..MaxRows}

\* find_instrument_token that compares the texts as they are.
find_instrument_token_ExactCase(df, tradingsymbol, exchange) ==
    IF df = <<>> THEN None
    ELSE LET mask(row) == /\ row.exchange = exchange
                          /\ row.tradingsymbol = tradingsymbol
             hits == SelectSeq(df, mask)
         IN  IF hits # <<>> THEN hits[1].instrument_token ELSE None

\* Lines 107-116: find_instrument_token(df, tradingsymbol, exchange).
find_instrument_token(df, tradingsymbol, exchange) ==
    IF df = <<>> THEN None
    ELSE LET mask(row) == /\ Upper(row.exchange) = Upper(exchange)
                          /\ Upper(row.tradingsymbol) = Upper(tradingsymbol)
             hits == SelectSeq(df, mask)
         IN  IF hits # <<>> THEN hits[1].instrument_token ELSE None

\* The lookup on every table and pair of texts within the bounds.
InitLookup ==
    /\ InitSession
    /\ iv = NoCheck
    /\ search = NoSearch
    /\ \E df \in Tables, symbol \in Symbols, exchange \in ExchangeNames :
         lookup = [df |-> df, symbol |-> symbol, exchange |-> exchange,
                   called |-> FALSE, result |-> None]

\* The lookup is made and its answer kept.
Lookup ==
    /\ ~lookup.called
    /\ lookup' = [lookup EXCEPT
                     !.called = TRUE,
                     !.result = find_instrument_token(lookup.df, lookup.symbol,
                                                      lookup.exchange)]
    /\ UNCHANGED <<session_state, query_params, pc, k, inflight, replay, calls,
                   cache, tickers, threads, next_request, submitted, resubmitted,
                   regranted, next_access, last_data, revoked, since_logout,
                   auth_rejected, exchanged, secrets, page, report, tab2, iv,
                   handled, search>>

\* ------------------------------------------------------ search page (app.py)
\* What .streamlit/secrets.toml of the search page may hold; st.secrets.get
\* with default "" (lines 16-18) reads a missing key as the empty text.
SearchSecrets ==
    [indiav1_api_url : {"", "https://api"},
     indiav1_jwt_token : {"", "jwt1", "jwt2"},
     indiav1_user_id : {"", "user1", "user2"}]

\* Query texts: up to MaxQuery characters, blanks and letters.
Queries == UNION {[1..n -> {" ", "x"}] : n \in 0..MaxQuery}

\* str.strip(): the text without its leading and trailing blanks.
RECURSIVE StripLeft(_)
StripLeft(text) ==
    IF text # <<>> /\ Head(text) = " " THEN StripLeft(Tail(text)) ELSE text

RECURSIVE StripRight(_)
StripRight(text) ==
    IF text # <<>> /\ text[Len(text)] = " "
    THEN StripRight(SubSeq(text, 1, Len(text) - 1)) ELSE text

strip(text) == StripRight(StripLeft(text))

\* Lines 20-23: the sidebar status.
SidebarStatus(sec) ==
    IF sec.indiav1_api_url = "" \/ sec.indiav1_jwt_token = ""
       \/ sec.indiav1_user_id = ""
    THEN "error" ELSE "success"

\* Lines 107-112: the request of a search.
SearchRequest(sec, query) ==
    [url |-> sec.indiav1_api_url,
     headers |-> [Authorization |-> "Bearer " \o sec.indiav1_jwt_token,
                  ContentType |-> "application/json"],
     data |-> [query |-> query, userId |-> sec.indiav1_user_id]]

\* search_page that does not test the user id.
search_page_NoUserTest(sec, submit_btn, query, response) ==
    LET shows(sent, shown) ==
            [secrets |-> sec, submitted |-> submit_btn, query |-> query,
             sent |-> sent, sidebar |-> SidebarStatus(sec), shown |-> shown]
    IN  IF ~submit_btn THEN shows(<<>>, "none")
        ELSE IF sec.indiav1_api_url = "" \/ sec.indiav1_jwt_token = ""
        THEN shows(<<>>, "error")
        ELSE IF strip(query) = <<>> THEN shows(<<>>, "error")
        ELSE shows(<<SearchRequest(sec, query)>>,
                  IF response = "ok" THEN "results" ELSE "error")

\* Lines 16-23 and 96-153: one run of the search page; response: the API
\* answers ok, answers with an error status, or the request raises.
search_page(sec, submit_btn, query, response) ==
    LET shows(sent, shown) ==
            [secrets |-> sec, submitted |-> submit_btn, query |-> query,
             sent |-> sent, sidebar |-> SidebarStatus(sec), shown |-> shown]
    IN  IF ~submit_btn THEN shows(<<>>, "none")
        ELSE IF sec.indiav1_api_url = "" \/ sec.indiav1_jwt_token = ""
                \/ sec.indiav1_user_id = ""
        THEN shows(<<>>, "error")
        ELSE IF strip(query) = <<>> THEN shows(<<>>, "error")
        ELSE shows(<<SearchRequest(sec, query)>>,
                  IF response = "ok" THEN "results" ELSE "error")

\* The search page is deployed with some secrets file.
InitSearch ==
    /\ InitSession
    /\ iv = NoCheck
    /\ lookup = NoLookup
    /\ \E sec \in SearchSecrets : search = [NoSearch EXCEPT !.secrets = sec]

SearchVars ==
    <<session_state, query_params, pc, k, inflight, replay, calls, cache, tickers,
      threads, next_request, submitted, resubmitted, regranted, next_access,
      last_data, revoked, since_logout, auth_rejected, exchanged, secrets, page,
      report, tab2, iv, handled, lookup>>

\* The page is loaded, or reruns on a widget change, without a submit.
SearchLoad ==
    /\ \E query \in Queries :
         search' = search_page(search.secrets, FALSE, query, "ok")
    /\ UNCHANGED SearchVars

\* The form is submitted.
SearchSubmit ==
    /\ \E query \in Queries, response \in {"ok", "failed", "raised"} :
         search' = search_page(search.secrets, TRUE, query, response)
    /\ UNCHANGED SearchVars

\* ------------------------------------------------------------ orders tab
\* tag[:20] (line 484).
TagMax == 20

\* Tag texts: the text of n characters is <<1, ..., n>>; no tag, and tags
\* around the cut.
Tags == {[i \in 1..n |-> i] : n \in {0} \cup (TagMax - 1)..MaxTag}

\* Texts typed into a price field: nothing, a number, not a number.
NumberTexts == {"", "12", "abc"}

\* float(text) returns.
Parses(text) == text = "12"

\* float(text) when it returns.
Float(text) == 12

\* The place order form: the eight selectors and inputs at their defaults,
\* the three optional texts as typed.
PlaceInputs == [price : NumberTexts, trigger_price : NumberTexts, tag : Tags]

\* Inputs of the single-order column: the order id and the modify form.
ManageInputs == [order_id : {"", "ORD1"}, price : NumberTexts, quantity : 0..1,
                 trigger_price : NumberTexts]

\* A float() of lines 479-482 or 550-555 raises ValueError.
FloatRaises(inp) ==
    \/ inp.price # "" /\ ~Parses(inp.price)
    \/ inp.trigger_price # "" /\ ~Parses(inp.trigger_price)

\* PlaceParams that passes the tag as typed.
PlaceParams_FullTag(inp) ==
    LET p0 == [variety |-> "regular", exchange |-> "NSE", tradingsymbol |-> "INFY",
               transaction_type |-> "BUY", order_type |-> "MARKET", quantity |-> 1,
               product |-> "CNC", validity |-> "DAY"]
        p1 == IF inp.price # "" THEN Store(p0, "price", Float(inp.price)) ELSE p0
        p2 == IF inp.trigger_price # ""
              THEN Store(p1, "trigger_price", Float(inp.trigger_price)) ELSE p1
    IN  IF inp.tag # <<>> THEN Store(p2, "tag", inp.tag) ELSE p2

\* Lines 469-484: the parameters of place_order.
PlaceParams(inp) ==
    LET p0 == [variety |-> "regular", exchange |-> "NSE", tradingsymbol |-> "INFY",
               transaction_type |-> "BUY", order_type |-> "MARKET", quantity |-> 1,
               product |-> "CNC", validity |-> "DAY"]
        p1 == IF inp.price # "" THEN Store(p0, "price", Float(inp.price)) ELSE p0
        p2 == IF inp.trigger_price # ""
              THEN Store(p1, "trigger_price", Float(inp.trigger_price)) ELSE p1
    IN  IF inp.tag # <<>>
        THEN Store(p2, "tag", SubSeq(inp.tag, 1, IF Len(inp.tag) < TagMax
                                                 THEN Len(inp.tag) ELSE TagMax))
        ELSE p2

\* What a handler did: the broker calls it made and the message it showed.
Handled(button, inp, sent, shown) ==
    [button |-> button, inputs |-> inp, sent |-> sent, shown |-> shown]

\* Message after a broker call: st.success, or st.error of the except block.
Shown(client, up) == IF ApiResult(client, up) = "ok" THEN "success" ELSE "error"

\* Lines 467-491: "Place Order".
PlaceOrder(client, inp, up) ==
    IF FloatRaises(inp)
    THEN Handled("place", inp, <<>>, "error")
    ELSE Handled("place", inp,
                 <<[op |-> "place_order", params |-> PlaceParams(inp)]>>,
                 Shown(client, up))

\* Lines 527-536: "Get Order History".
OrderHistory(client, inp, up) ==
    IF inp.order_id # ""
    THEN Handled("history", inp,
                 <<[op |-> "order_history", order_id |-> inp.order_id]>>,
                 Shown(client, up))
    ELSE Handled("history", inp, <<>>, "warning")

\* Lines 549-555: the arguments of modify_order.
ModifyArgs(inp) ==
    LET a0 == [key \in {} |-> 0]
        a1 == IF inp.price # "" THEN Store(a0, "price", Float(inp.price)) ELSE a0
        a2 == IF inp.quantity > 0 THEN Store(a1, "quantity", inp.quantity) ELSE a1
    IN  IF inp.trigger_price # ""
        THEN Store(a2, "trigger_price", Float(inp.trigger_price)) ELSE a2

\* ModifyOrder without the test of line 557.
ModifyOrder_NoArgsTest(client, inp, up) ==
    IF inp.order_id = "" THEN Handled("modify", inp, <<>>, "warning")
    ELSE IF FloatRaises(inp) THEN Handled("modify", inp, <<>>, "error")
    ELSE Handled("modify", inp,
                 <<[op |-> "modify_order", order_id |-> inp.order_id,
                    args |-> ModifyArgs(inp)]>>,
                 Shown(client, up))

\* Lines 546-567: "Modify Order".
ModifyOrder(client, inp, up) ==
    IF inp.order_id = "" THEN Handled("modify", inp, <<>>, "warning")
    ELSE IF FloatRaises(inp) THEN Handled("modify", inp, <<>>, "error")
    ELSE IF DOMAIN ModifyArgs(inp) = {} THEN Handled("modify", inp, <<>>, "warning")
    ELSE Handled("modify", inp,
                 <<[op |-> "modify_order", order_id |-> inp.order_id,
                    args |-> ModifyArgs(inp)]>>,
                 Shown(client, up))

\* Lines 570-581: "Cancel Order".
CancelOrder(client, inp, up) ==
    IF inp.order_id # ""
    THEN Handled("cancel", inp,
                 <<[op |-> "cancel_order", order_id |-> inp.order_id]>>,
                 Shown(client, up))
    ELSE Handled("cancel", inp, <<>>, "warning")

\* Brokerage calls of a handler as the run records them.
SentCalls(client, h) == UNION {Call(client, h.sent[i].op) : i \in 1..Len(h.sent)}

\* A run in which a button of the orders tab is pressed; the tab is under
\* `if not k` (line 445).
OrdersRun(h) ==
    /\ \E up \in BOOLEAN :
         LET c == InstTab(UpToWsTab("none", "NSE", up), "none", "NSE", up)
         IN  EndRun(Ctx(c.ss, c.cache,
                        c.calls \cup SentCalls(Client(session_state), h[up])), up)
             /\ handled' = h[up]
    /\ UNCHANGED <<tickers, threads>>

RunPlaceOrder ==
    /\ CanRun(TRUE)
    /\ Client(session_state).exists
    /\ \E inp \in PlaceInputs :
         OrdersRun([up \in BOOLEAN |-> PlaceOrder(Client(session_state), inp, up)])

RunOrderHistory ==
    /\ CanRun(TRUE)
    /\ Client(session_state).exists
    /\ \E inp \in ManageInputs :
         OrdersRun([up \in BOOLEAN |-> OrderHistory(Client(session_state), inp, up)])

RunModifyOrder ==
    /\ CanRun(TRUE)
    /\ Client(session_state).exists
    /\ \E inp \in ManageInputs :
         OrdersRun([up \in BOOLEAN |-> ModifyOrder(Client(session_state), inp, up)])

RunCancelOrder ==
    /\ CanRun(TRUE)
    /\ Client(session_state).exists
    /\ \E inp \in ManageInputs :
         OrdersRun([up \in BOOLEAN |-> CancelOrder(Client(session_state), inp, up)])

\* ------------------------------------------------------------ market data
\* Lines 118-140: get_ltp_price, get_ohlc_quote and get_full_market_quote
\* (op: ltp, ohlc, quote) return the provider's answer, or a record with the
\* key "error" from the except block.
get_quote(ctx, client, op, up) ==
    [data |-> IF ApiResult(client, up) = "ok" THEN "quote" ELSE "error",
     ctx |-> Ctx(ctx.ss, ctx.cache, ctx.calls \cup Call(client, op))]

\* What the user asks historical data for: the symbol is listed on the
\* exchange or not, and the provider has candles for the period or not.
HistInputs == [listed : BOOLEAN, rows : BOOLEAN]

\* Lines 107-116 as get_historical sees it: a token is found when the frame
\* has rows and lists the symbol.
TokenFound(df, inp) == df = "data" /\ inp.listed

\* Lines 142-163: get_historical.  Returns the list of candles that
\* historical_data answers ("candles", or "no_candles" for an empty list), or a
\* record with the key "error": when no token is found and from the except
\* block around the whole body.
get_historical(ctx, client, inp, exchange, up) ==
    LET inst_df == IF "instruments_df" \in DOMAIN ctx.ss
                   THEN ctx.ss["instruments_df"] ELSE "empty"
        r == load_instruments(ctx, client, exchange, up)
        c1 == IF TokenFound(inst_df, inp) THEN ctx
              ELSE IF r.df # "empty"
                   THEN Ctx(Store(r.ctx.ss, "instruments_df", r.df),
                            r.ctx.cache, r.ctx.calls)
                   ELSE r.ctx
        token == TokenFound(inst_df, inp) \/ TokenFound(r.df, inp)
    IN  IF ~token THEN [data |-> "error", ctx |-> c1]
        ELSE [data |-> IF ApiResult(client, up) # "ok" THEN "error"
                       ELSE IF inp.rows THEN "candles" ELSE "no_candles",
              ctx |-> Ctx(c1.ss, c1.cache,
                          c1.calls \cup Call(client, "historical_data"))]

\* The value is a dict: it has .get and keys.  A list of candles is not.
IsDict(data) == data \in {"error", "quote"}

\* What a button's handler leaves: the script's values, what it showed, and
\* whether the run ended there (st.stop() or an exception nobody caught).
Outcome(ctx, h, ended) == [ctx |-> ctx, handled |-> h, ended |-> ended]

\* Lines 601-617: "Get Market Data".
GetMarketData(ctx, client, op, up) ==
    LET r == get_quote(ctx, client, op, up)
    IN  IF r.data = "error"
        THEN Outcome(Ctx(Store(r.ctx.ss, "current_market_data", None),
                         r.ctx.cache, r.ctx.calls),
                     Handled("quote", op, <<>>, "error"), FALSE)
        ELSE Outcome(Ctx(Store(r.ctx.ss, "current_market_data", r.data),
                         r.ctx.cache, r.ctx.calls),
                     Handled("quote", op, <<>>, "success"), FALSE)

\* Lines 324-336: "Load NIFTY 50 Historical for Chart".  Line 328 calls .get
\* on the result, outside any try block.
LoadNiftyHistorical(ctx, client, inp, up) ==
    LET r == get_historical(ctx, client, inp, "NSE", up)
    IN  IF ~IsDict(r.data)
        THEN Outcome(r.ctx, Handled("nifty", inp, <<>>, "raised"), TRUE)
        ELSE IF r.data # "error"
        THEN Outcome(Ctx(Store(r.ctx.ss, "historical_data_NIFTY", "data"),
                         r.ctx.cache, r.ctx.calls),
                     Handled("nifty", inp, <<>>, "success"), FALSE)
        ELSE Outcome(r.ctx, Handled("nifty", inp, <<>>, "error"), FALSE)

\* Lines 653-679: "Fetch Historical Data".
FetchHistorical(ctx, client, inp, up) ==
    IF "instruments_df" \notin DOMAIN ctx.ss \/ ctx.ss["instruments_df"] = "empty"
    THEN Outcome(ctx, Handled("hist", inp, <<>>, "error"), FALSE)
    ELSE LET r == get_historical(ctx, client, inp, "NSE", up)
             keep(df, symbol, shown) ==
                 Outcome(Ctx(Store(Store(r.ctx.ss, "historical_data", df),
                                   "last_fetched_symbol", symbol),
                             r.ctx.cache, r.ctx.calls),
                         Handled("hist", inp, <<>>, shown), FALSE)
         IN  IF r.data = "error" THEN keep("empty", None, "error")
             ELSE IF r.data = "candles" THEN keep("data", 1, "success")
             ELSE keep("empty", None, "info")

\* Lines 1297-1300: "Fetch Multi-Asset Data & Analyze".  Line 1298 takes the
\* truth value of st.session_state.get("instruments_df"): None when the key is
\* missing (warning, st.stop()), a DataFrame otherwise, whose truth value
\* raises ValueError; the loop of lines 1306-1323 is not reached.
FetchMultiAsset(ctx, client, inp, up) ==
    IF "instruments_df" \notin DOMAIN ctx.ss
    THEN Outcome(ctx, Handled("multi", inp, <<>>, "warning"), TRUE)
    ELSE Outcome(ctx, Handled("multi", inp, <<>>, "raised"), TRUE)

\* A run in which a button of the dashboard, market or multi-asset tab is
\* pressed (all under `if not k`); a run that does not end at the button goes
\* on to the websocket tab.
MarketRun(o, up) ==
    /\ EndRun(IF o.ended THEN o.ctx
              ELSE WsTabHead(o.ctx, Client(session_state), up), up)
    /\ handled' = o.handled
    /\ UNCHANGED <<tickers, threads>>

RunGetMarketData ==
    /\ CanRun(TRUE)
    /\ Client(session_state).exists
    /\ \E up \in BOOLEAN, op \in {"ltp", "ohlc", "quote"} :
         MarketRun(GetMarketData(Dashboard(AfterSidebar, Client(session_state)),
                                 Client(session_state), op, up), up)

RunLoadNiftyHistorical ==
    /\ CanRun(TRUE)
    /\ Client(session_state).exists
    /\ "historical_data_NIFTY" \notin DOMAIN session_state
    /\ \E up \in BOOLEAN, inp \in HistInputs :
         MarketRun(LoadNiftyHistorical(Dashboard(AfterSidebar, Client(session_state)),
                                       Client(session_state), inp, up), up)

RunFetchHistorical ==
    /\ CanRun(TRUE)
    /\ Client(session_state).exists
    /\ \E up \in BOOLEAN, inp \in HistInputs :
         MarketRun(FetchHistorical(Dashboard(AfterSidebar, Client(session_state)),
                                   Client(session_state), inp, up), up)

RunFetchMultiAsset ==
    /\ CanRun(TRUE)
    /\ Client(session_state).exists
    /\ \E up \in BOOLEAN, inp \in HistInputs :
         MarketRun(FetchMultiAsset(Dashboard(AfterSidebar, Client(session_state)),
                                   Client(session_state), inp, up), up)

\* ---------------------------------------------------------------- ticker
\* A KiteTicker object built with the session's access token (lines 1425-1431).
\* events, seen: the on_ticks and on_error callbacks made and the ticks
\* delivered so far.
KiteTicker(access_token) ==
    [access_token |-> access_token, ws |-> "new", events |-> 0, seen |-> 0]

\* "Start Ticker (Subscribe)" (lines 1423-1504): pressed while kt_running is
\* False.  A ticker is built from the stored credential, the kt_* keys are
\* reset and the run_ticker thread is started.
StartTicker(state, id) ==
    LET s1 == Store(state, "kt_ticker", id)
        s2 == Store(s1, "kt_running", TRUE)
        s3 == Store(s2, "kt_ticks", <<>>)
        s4 == Store(s3, "kt_live_prices", "empty")
        s5 == Store(s4, "kt_status_message", "connecting")
    IN  Store(s5, "kt_thread", id)

StartTickerRun ==
    /\ CanRun(TRUE)
    /\ Client(session_state).exists
    /\ \E up \in BOOLEAN :
         LET head == UpToWsTab("none", "NSE", up)
             id == Len(tickers) + 1
         IN  /\ ~head.ss["kt_running"]
             /\ tickers' = Append(tickers, KiteTicker(head.ss["kite_access_token"]))
             /\ threads' = Append(threads, "connect")
             /\ EndRun(InstTab(Ctx(StartTicker(head.ss, id), head.cache, head.calls),
                               "none", "NSE", up), up)
    /\ handled' = NoForm

RunStartTicker ==
    /\ Len(tickers) < MaxTickers
    /\ StartTickerRun

\* "Start Ticker (Subscribe)" in a session that may press it MaxStarts times.
RunStartTickerAgain ==
    /\ Len(tickers) < MaxStarts
    /\ StartTickerRun

\* kt.disconnect(): a connection that exists is asked to close.
Disconnect(kt) ==
    IF kt.ws \in {"connecting", "open"}
    THEN [kt EXCEPT !.ws = "closing"] ELSE kt

\* "Stop Ticker" (lines 1507-1517): pressed while kt_running is True.  The
\* flag is lowered after kt.disconnect() inside the try block: when the call
\* raises, the except block only reports the failure.
StopTicker(state, returned) ==
    IF returned
    THEN Store(Store(state, "kt_running", FALSE), "kt_status_message", "stopped")
    ELSE Store(state, "kt_status_message", "stop_failed")

RunStopTicker ==
    /\ CanRun(TRUE)
    /\ Client(session_state).exists
    /\ \E up \in BOOLEAN, returned \in BOOLEAN :
         LET head == UpToWsTab("none", "NSE", up)
             kt == head.ss["kt_ticker"]
         IN  /\ head.ss["kt_running"]
             /\ kt = None => returned
             /\ tickers' = IF kt # None /\ returned
                           THEN [tickers EXCEPT ![kt] = Disconnect(tickers[kt])]
                           ELSE tickers
             /\ EndRun(InstTab(Ctx(StopTicker(head.ss, returned), head.cache,
                                   head.calls),
                               "none", "NSE", up), up)
    /\ handled' = NoForm
    /\ UNCHANGED threads

\* Lines 1493-1496: the except block of run_ticker.  It reads kt_ticks first:
\* when the key is gone the KeyError leaves the handler and the thread dies
\* with the state untouched.
FatalError(state) ==
    IF "kt_ticks" \notin DOMAIN state THEN state
    ELSE Store(Store(Store(state, "kt_ticks", Append(state["kt_ticks"], "fatal_error")),
                     "kt_running", FALSE),
               "kt_status_message", "fatal")

TickerStep(id, kt, position, state) ==
    /\ tickers' = [tickers EXCEPT ![id] = kt]
    /\ threads' = [threads EXCEPT ![id] = position]
    /\ session_state' = state
    /\ UNCHANGED <<query_params, pc, k, inflight, replay, calls, cache,
                   next_request, submitted, resubmitted, regranted,
                   next_access, last_data, revoked, since_logout, auth_rejected>>
    /\ UNCHANGED <<page, report, exchanged, secrets, tab2, iv, forms>>

\* Line 1490: kt.connect(threaded=True) starts the websocket connection.
ThreadConnect(id) ==
    /\ id \in DOMAIN threads
    /\ threads[id] = "connect"
    /\ TickerStep(id, [tickers[id] EXCEPT !.ws = "connecting"], "poll", session_state)

\* Line 1490 raising: the except block runs and the thread ends.
ThreadConnectFails(id) ==
    /\ id \in DOMAIN threads
    /\ threads[id] = "connect"
    /\ TickerStep(id, tickers[id], "done", FatalError(session_state))

\* ThreadPoll whose loop does not test kt_running.
ThreadPoll_NoTest(id) ==
    /\ id \in DOMAIN threads
    /\ threads[id] = "poll"
    /\ TickerStep(id, tickers[id], "poll", session_state)

\* Lines 1491-1492: one evaluation of the loop condition.  A missing
\* kt_running key raises KeyError into the except block.
ThreadPoll(id) ==
    /\ id \in DOMAIN threads
    /\ threads[id] = "poll"
    /\ IF "kt_running" \notin DOMAIN session_state
       THEN TickerStep(id, tickers[id], "done", FatalError(session_state))
       ELSE IF session_state["kt_running"]
       THEN TickerStep(id, tickers[id], "poll", session_state)
       ELSE TickerStep(id, tickers[id], "done", session_state)

\* Lines 1439-1455: on_connect.  The append to kt_ticks comes first; with the
\* key gone the callback raises and changes nothing.
on_connect(state) ==
    IF "kt_ticks" \notin DOMAIN state THEN state
    ELSE Store(Store(state, "kt_ticks", Append(state["kt_ticks"], "connected")),
               "kt_status_message", "connected")

\* Lines 1474-1477: on_close.
on_close(state) ==
    IF "kt_ticks" \notin DOMAIN state THEN state
    ELSE Store(Store(Store(state, "kt_ticks", Append(state["kt_ticks"], "closed")),
                     "kt_running", FALSE),
               "kt_status_message", "closed")

\* Lines 1470-1471: the length kt_ticks is cut back to.
TickLimit == 200

\* Sizes of the batches the library hands to on_ticks.
BatchSizes == {1, TickLimit}

\* A batch of n ticks, numbered in arrival order from first.
Batch(first, n) == [i \in 1..n |-> "tick" \o ToString(first + i - 1)]

\* Lines 1457-1472: on_ticks.  Every tick is appended, then the list is cut
\* to its last TickLimit entries.
on_ticks(state, ticks) ==
    IF "kt_ticks" \notin DOMAIN state THEN state
    ELSE LET all == state["kt_ticks"] \o ticks
             kept == IF Len(all) > TickLimit
                     THEN SubSeq(all, Len(all) - TickLimit + 1, Len(all))
                     ELSE all
         IN  Store(Store(Store(state, "kt_ticks", kept), "kt_live_prices", "data"),
                   "_last_tick_update", TRUE)

\* Lines 1479-1481: on_error.
on_error(state) ==
    IF "kt_ticks" \notin DOMAIN state THEN state
    ELSE Store(Store(state, "kt_ticks", Append(state["kt_ticks"], "error")),
               "kt_status_message", "error")

\* The library delivers a batch of ticks on an open connection.
OnTicks(id) ==
    /\ id \in DOMAIN tickers
    /\ tickers[id].ws = "open"
    /\ tickers[id].events < MaxEvents
    /\ \E n \in BatchSizes :
         TickerStep(id, [tickers[id] EXCEPT !.events = @ + 1, !.seen = @ + n],
                    threads[id],
                    on_ticks(session_state, Batch(tickers[id].seen + 1, n)))

\* The library reports an error of the connection.
OnError(id) ==
    /\ id \in DOMAIN tickers
    /\ tickers[id].ws \in {"connecting", "open"}
    /\ tickers[id].events < MaxEvents
    /\ TickerStep(id, [tickers[id] EXCEPT !.events = @ + 1], threads[id],
                  on_error(session_state))

\* The websocket handshake completes and the library calls on_connect.
WsConnected(id) ==
    /\ id \in DOMAIN tickers
    /\ tickers[id].ws = "connecting"
    /\ TickerStep(id, [tickers[id] EXCEPT !.ws = "open"], threads[id],
                  on_connect(session_state))

\* The connection ends (refused, dropped or closed on request) and the
\* library calls on_close.
WsClosed(id) ==
    /\ id \in DOMAIN tickers
    /\ tickers[id].ws \in {"connecting", "open", "closing"}
    /\ TickerStep(id, [tickers[id] EXCEPT !.ws = "closed"], threads[id],
                  on_close(session_state))

\* ------------------------------------------------------- specification
Next ==
    \/ Redirect
    \/ OpenPlain
    \/ \E a \in AccessTokens : ProviderRevoke(a)
    \/ SubmitExchange
    \/ ExchangeOk
    \/ ExchangeNoToken
    \/ ExchangeFail
    \/ RunPlain
    \/ RunFetchHoldings
    \/ RunLoadMarket
    \/ RunLoadInstruments
    \/ RunLogout
    \/ RunStartTicker
    \/ RunStopTicker
    \/ \E id \in TickerIds : ThreadConnect(id)
    \/ \E id \in TickerIds : ThreadConnectFails(id)
    \/ \E id \in TickerIds : ThreadPoll(id)
    \/ \E id \in TickerIds : WsConnected(id)
    \/ \E id \in TickerIds : WsClosed(id)

Spec == Init /\ [][Next]_vars

\* The session without the websocket tab's Start/Stop buttons: no ticker is
\* ever created, everything else is as in Next.
NextAuth ==
    \/ Redirect
    \/ OpenPlain
    \/ \E a \in AccessTokens : ProviderRevoke(a)
    \/ SubmitExchange
    \/ ExchangeOk
    \/ ExchangeNoToken
    \/ ExchangeFail
    \/ RunPlain
    \/ RunFetchHoldings
    \/ RunLoadMarket
    \/ RunLoadInstruments
    \/ RunLogout

SpecAuth == Init /\ [][NextAuth]_vars

\* The configuration check: NextAuth with a secrets file that can be edited
\* between runs, the provider keeping the access tokens it issued valid.
NextConfig ==
    \/ Redirect
    \/ OpenPlain
    \/ SubmitExchange
    \/ ExchangeOk
    \/ ExchangeNoToken
    \/ ExchangeFail
    \/ RunPlain
    \/ RunFetchHoldings
    \/ RunLoadMarket
    \/ RunLoadInstruments
    \/ RunLogout
    \/ EditSecrets
    \/ RunConfigError

SpecConfig == Init /\ [][NextConfig]_vars

\* The login of one browser with a second tab on the same URL.
NextTabs ==
    \/ Redirect
    \/ OpenPlain
    \/ SubmitExchange
    \/ ExchangeOk
    \/ ExchangeNoToken
    \/ ExchangeFail
    \/ RunPlain
    \/ RunLoadInstruments
    \/ RunLogout
    \/ OpenTab2
    \/ Tab2SubmitExchange
    \/ Tab2ExchangeOk
    \/ Tab2ExchangeNoToken
    \/ Tab2ExchangeFail
    \/ Tab2Run
    \/ Tab2LoadInstruments
    \/ CloseTab2

SpecTabs == Init /\ [][NextTabs]_vars

\* The restriction interval check on every text and date within the bounds.
NextInterval == Evaluate

SpecInterval == InitInterval /\ [][NextInterval]_vars

\* The instrument lookup on every table within the bounds.
NextLookup == Lookup

SpecLookup == InitLookup /\ [][NextLookup]_vars

\* The search page under every secrets file and query within the bounds.
NextSearch ==
    \/ SearchLoad
    \/ SearchSubmit

SpecSearch == InitSearch /\ [][NextSearch]_vars

\* The websocket tab of a session that logs in and starts and stops tickers.
NextTicker ==
    \/ Redirect
    \/ SubmitExchange
    \/ ExchangeOk
    \/ RunPlain
    \/ RunStartTickerAgain
    \/ RunStopTicker
    \/ \E id \in StartIds : ThreadConnect(id)
    \/ \E id \in StartIds : ThreadConnectFails(id)
    \/ \E id \in StartIds : ThreadPoll(id)
    \/ \E id \in StartIds : WsConnected(id)
    \/ \E id \in StartIds : WsClosed(id)

SpecTicker == Init /\ [][NextTicker]_vars

\* The same under the scheduler's guarantee that a started thread keeps
\* running: kt.connect returns or raises, and the loop's sleep of 0.1 s ends.
TickerFairness ==
    \A id \in StartIds :
        /\ WF_vars(ThreadConnect(id) \/ ThreadConnectFails(id))
        /\ WF_vars(ThreadPoll(id))

SpecTickerFair == Init /\ [][NextTicker]_vars /\ TickerFairness

\* The websocket tab of a session whose ticker receives ticks and errors.
NextTicks ==
    \/ Redirect
    \/ SubmitExchange
    \/ ExchangeOk
    \/ RunPlain
    \/ RunStartTicker
    \/ RunStopTicker
    \/ \E id \in TickerIds : ThreadConnect(id)
    \/ \E id \in TickerIds : ThreadConnectFails(id)
    \/ \E id \in TickerIds : ThreadPoll(id)
    \/ \E id \in TickerIds : WsConnected(id)
    \/ \E id \in TickerIds : WsClosed(id)
    \/ \E id \in TickerIds : OnTicks(id)
    \/ \E id \in TickerIds : OnError(id)

SpecTicks == Init /\ [][NextTicks]_vars

\* The orders tab of a session that logs in.
NextOrders ==
    \/ Redirect
    \/ SubmitExchange
    \/ ExchangeOk
    \/ RunPlain
    \/ RunPlaceOrder
    \/ RunOrderHistory
    \/ RunModifyOrder
    \/ RunCancelOrder

SpecOrders == Init /\ [][NextOrders]_vars

\* The market data buttons of a session that logs in and out.
NextMarket ==
    \/ Redirect
    \/ SubmitExchange
    \/ ExchangeOk
    \/ ExchangeFail
    \/ RunPlain
    \/ RunLogout
    \/ RunLoadInstruments
    \/ RunGetMarketData
    \/ RunLoadNiftyHistorical
    \/ RunFetchHistorical
    \/ RunFetchMultiAsset

SpecMarket == Init /\ [][NextMarket]_vars

\* ---------------------------------------------------------------- claims
\* The session is AUTHENTICATED when the access token key is present (line 81).
Authenticated == Has("kite_access_token")

HoldsRevoked == Authenticated /\ session_state["kite_access_token"] \in revoked

\* C2: once a call with the stored credential was answered 401/403 the
\* session is UNAUTHENTICATED at the end of that run, and no later call goes
\* out with the rejected credential.
C2_RejectionLogsOut ==
    /\ pc = "idle" /\ auth_rejected => ~HoldsRevoked
    /\ \A c \in calls : c.stale => c.access_token \notin revoked

\* C3: an exchange with a request_token that was submitted before never
\* yields a credential.
C3_NoSecondCredential == ~regranted

\* C4: the program never sends the provider a request_token it has sent
\* before.
C4_NeverResubmits == ~resubmitted

\* C5: a failed exchange writes nothing to the session state, leaves both
\* credential keys absent and creates no authenticated client.
C5_FailedExchangeStoresNothing ==
    [][(pc = "exchanging" /\ pc' = "idle") =>
          /\ session_state' = session_state
          /\ "kite_access_token" \notin DOMAIN session_state'
          /\ "kite_login_response" \notin DOMAIN session_state'
          /\ ~k'.exists]_vars

\* C5 witness: a request_token was submitted, the run has ended and no
\* exchange has ever been answered: the exchange failed.
C5_Witness ==
    /\ pc = "idle"
    /\ submitted # {}
    /\ last_data = NoData
    /\ ~Authenticated

\* C6: the session holds either both credential keys, the access token being
\* one the provider issued, or neither of them.
C6_CompleteOrNone ==
    /\ Authenticated <=> Has("kite_login_response")
    /\ Authenticated => session_state["kite_access_token"] \in Issued

\* C7: right after logout the session state is empty, and until an exchange
\* is answered no run has an authenticated client.
C7_LogoutClears ==
    /\ pc = "rerun" /\ ~since_logout => session_state = EmptyState
    /\ pc # "rerun" /\ ~since_logout => ~k.exists /\ ~Authenticated

\* C7 witness: logout was pressed in a run whose client carried an issued
\* access token, after instruments had been loaded in the session.
C7_Witness ==
    /\ pc = "rerun"
    /\ ~since_logout
    /\ k.exists
    /\ k.access_token \in AccessTokens
    /\ calls # {}
    /\ "NSE" \in DOMAIN cache

\* C8: once the session is logged out no ticker keeps a connection made with
\* the access token and no run_ticker thread is alive.
C8_LogoutDestroysCredential ==
    ~since_logout =>
        \A id \in DOMAIN tickers :
            /\ tickers[id].ws \notin {"connecting", "open"}
            /\ threads[id] \notin {"connect", "poll"}

\* C9: a request_token that arrives while the session is AUTHENTICATED is
\* exchanged by the run that receives it, so that its credential replaces
\* the stored one.
C9_NewLoginOverwrites ==
    pc = "idle" /\ Authenticated /\ request_token # None => request_token \in submitted

\* C10: every brokerage call of a run goes through the client built from the
\* session's access token, and a run of an UNAUTHENTICATED session issues none.
C10_CallsCarryCredential ==
    /\ \A c \in calls : k.exists /\ c.access_token = k.access_token
    /\ pc = "idle" /\ ~Authenticated => calls = {}
    /\ Authenticated =>
         \A c \in calls : c.access_token = session_state["kite_access_token"]

\* C10 witness: the instruments tab's button was pressed in a run without a
\* client: load_instruments ran, its result was stored, nothing was sent.
C10_Witness ==
    /\ pc = "idle"
    /\ ~Authenticated
    /\ ~k.exists
    /\ "NSE" \in DOMAIN cache
    /\ Has("instruments_df")

\* C11: once a request_token has been exchanged for an access token it is
\* discarded: the session does not keep it and no later script run hands it
\* to the provider again.
C11_RequestTokenDiscarded ==
    /\ "request_token" \notin DOMAIN session_state
    /\ inflight # None => inflight \notin exchanged

\* Some of api_key, api_secret and redirect_uri is missing or empty.
BadConfig == \E key \in SecretKeys : key \notin DOMAIN secrets \/ secrets[key] = ""

\* C12: while the configuration is incomplete every run ends with the
\* configuration error: no step produces the login URL, starts an exchange,
\* issues a brokerage call or changes the session state.
C12_ConfigErrorStopsRun ==
    [][BadConfig =>
         /\ page' = page \/ page' = "config_error"
         /\ pc' # "exchanging"
         /\ submitted' = submitted
         /\ calls' \subseteq calls
         /\ session_state' = session_state]_vars

\* A run of an authenticated session ended with the configuration error.
C12_Witness == BadConfig /\ page = "config_error" /\ Authenticated /\ calls = {}

\* C13: a failed exchange is reported with an error kind of its own: the
\* kind shown differs from the kind any other cause of failure is shown with,
\* so the cause is known without reading the text of the message.
C13_DistinctErrorKinds ==
    report # NoReport =>
        \A other \in Causes \ {report.cause} :
            FailureReport(other).kind # report.kind

\* Exchanges the provider has not answered yet, over the tabs of the browser.
InFlight ==
    (IF inflight # None THEN 1 ELSE 0) + (IF tab2.inflight # None THEN 1 ELSE 0)

\* C14: at most one exchange is in flight at any time, also when a reload or
\* a second tab sees the request_token before the first exchange has stored
\* its result.
C14_OneExchangeInFlight == InFlight <= 1

\* The second tab's session holds a usable credential.
Tab2HasCredential ==
    /\ "kite_access_token" \in DOMAIN tab2.state
    /\ tab2.state["kite_access_token"] \in AccessTokens

\* C15: sessions are isolated: what a session gets from load_instruments
\* depends on its own credential only, so a session without a credential,
\* whose own request cannot be served, holds no instrument data.
C15_SessionsIsolated ==
    ("instruments_df" \in DOMAIN tab2.state /\ tab2.state["instruments_df"] = "data")
        => Tab2HasCredential

\* A bound of an interval as written: a day, or None for the empty bound.
BoundChoices == Days \cup {None}

Field(b) == IF b = None THEN <<>> ELSE <<ISO(b)>>

\* The well-formed text with these brackets and bounds.
IntervalText(open, lo, hi, close) ==
    <<open>> \o Field(lo) \o <<",">> \o Field(hi) \o <<close>>

\* Every well-formed interval within the bounds, with its text.
Intervals ==
    {[open |-> open, lo |-> lo, hi |-> hi, close |-> close,
      text |-> IntervalText(open, lo, hi, close)] :
        open \in OpenBrackets, lo \in BoundChoices, hi \in BoundChoices, close \in CloseBrackets}

WellFormedTexts == {i.text : i \in Intervals}

WellFormed(text) == text \in WellFormedTexts

\* The date satisfies each bound that is present under that side's bracket.
Satisfies(open, lo, hi, close, d) ==
    /\ lo # None => IF open = "[" THEN lo <= d ELSE lo < d
    /\ hi # None => IF close = "]" THEN d <= hi ELSE d < hi

\* C18: for a well-formed interval text with at least one bound and any date,
\* is_effective answers true exactly when the date satisfies each bound that
\* is present: "[" and "]" include the bound, "(" and ")" exclude it, an
\* empty bound does not constrain its side.
C18_InRangeIffBoundsHold ==
    iv.result # "none" =>
        \A i \in Intervals :
            ((i.lo # None \/ i.hi # None) /\ iv.text = i.text)
                => (iv.result = "true" <=> Satisfies(i.open, i.lo, i.hi, i.close, iv.date))

\* The date on an exclusive lower bound was answered false.
C18_Witness ==
    /\ iv.text = IntervalText("(", 1, 2, "]")
    /\ iv.date = 1
    /\ iv.result = "false"

\* C19: for a text that does not match the bracketed two-field pattern, the
\* empty text included, and any date, is_effective answers false.
C19_MalformedIsFalse ==
    (iv.result # "none" /\ ~WellFormed(iv.text)) => iv.result = "false"

\* A text without its closing bracket was answered false.
C19_Witness ==
    /\ iv.text = <<"[", ISO(1), ",", ISO(2)>>
    /\ iv.date = 1
    /\ iv.result = "false"

\* C20: for an interval with both bounds empty, whatever its brackets, and
\* any date, is_effective answers false.
C20_UnboundedIsFalse ==
    iv.result # "none" =>
        \A open \in OpenBrackets, close \in CloseBrackets :
            iv.text = IntervalText(open, None, None, close) => iv.result = "false"

\* The fully unbounded interval was answered false.
C20_Witness ==
    /\ iv.text = <<"(", ",", "]">>
    /\ iv.result = "false"

\* C21: load_instruments returns the provider's data whenever it is called
\* with an authenticated client while the provider would serve the call,
\* whatever earlier calls for the exchange returned.
C21_LoadReturnsProviderData ==
    (pc = "idle" /\ ApiResult(Client(session_state), TRUE) = "ok") =>
        \A exchange \in Exchanges :
            load_instruments(Ctx(session_state, cache, {}),
                             Client(session_state), exchange, TRUE).df = "data"


\* The order id was typed.
HasOrderId == handled.inputs.order_id # ""

\* The modify form carries at least one change.
HasChange ==
    \/ handled.inputs.price # ""
    \/ handled.inputs.quantity > 0
    \/ handled.inputs.trigger_price # ""

\* The brokerage operations among the calls of the last run.
OpsCalled == {c.op : c \in calls} \cup {handled.sent[i].op : i \in 1..Len(handled.sent)}

\* C22: modify_order is called only with an order id and at least one of new
\* price, new quantity above zero and new trigger price; cancel_order and
\* order_history only with an order id; without them no broker call is made
\* and a warning is shown.
C22_ManageNeedsInput ==
    /\ "modify_order" \in OpsCalled =>
           handled.button = "modify" /\ HasOrderId /\ HasChange
    /\ "cancel_order" \in OpsCalled => handled.button = "cancel" /\ HasOrderId
    /\ "order_history" \in OpsCalled => handled.button = "history" /\ HasOrderId
    /\ (handled.button = "modify" /\ ~(HasOrderId /\ HasChange)) =>
           handled.sent = <<>> /\ handled.shown = "warning"
    /\ (handled.button \in {"cancel", "history"} /\ ~HasOrderId) =>
           handled.sent = <<>> /\ handled.shown = "warning"

\* An order id without any change was submitted to the modify form.
C22_Witness ==
    /\ handled.button = "modify"
    /\ HasOrderId /\ ~HasChange
    /\ handled.shown = "warning"
    /\ "modify_order" \notin OpsCalled


\* The eight fields every order carries.
Mandatory == {"variety", "exchange", "tradingsymbol", "transaction_type",
              "order_type", "quantity", "product", "validity"}

\* The parameters of the call are the ones the form asks for.
ParamsAsTyped(params, inp) ==
    /\ Mandatory \subseteq DOMAIN params
    /\ "price" \in DOMAIN params <=> inp.price # ""
    /\ "trigger_price" \in DOMAIN params <=> inp.trigger_price # ""
    /\ "tag" \in DOMAIN params <=> inp.tag # <<>>
    /\ "tag" \in DOMAIN params =>
           /\ Len(params.tag) <= TagMax
           /\ Len(params.tag) <= Len(inp.tag)
           /\ Len(params.tag) = TagMax \/ Len(params.tag) = Len(inp.tag)
           /\ \A i \in 1..Len(params.tag) : params.tag[i] = inp.tag[i]

\* The price and trigger texts are numbers where they are given.
NumbersOk(inp) ==
    /\ inp.price \in {"", "12"}
    /\ inp.trigger_price \in {"", "12"}

\* C23 as stated: every "Place Order" makes exactly one place_order call with
\* the parameters the form asks for.
C23_ExactlyOneCall ==
    handled.button = "place" =>
        /\ Len(handled.sent) = 1
        /\ handled.sent[1].op = "place_order"
        /\ ParamsAsTyped(handled.sent[1].params, handled.inputs)

\* C23: "Place Order" makes at most one place_order call: exactly one when the
\* price and trigger texts are each empty or a number, and none, with an error
\* shown, when one of them is not a number; the call carries the eight
\* mandatory fields, price, trigger_price and tag exactly when their texts are
\* non-empty, and the tag cut to its first 20 characters.
C23_PlaceOrderParams ==
    handled.button = "place" =>
        /\ Len(handled.sent) <= 1
        /\ NumbersOk(handled.inputs) <=> Len(handled.sent) = 1
        /\ ~NumbersOk(handled.inputs) => handled.shown = "error"
        /\ \A i \in 1..Len(handled.sent) :
               /\ handled.sent[i].op = "place_order"
               /\ ParamsAsTyped(handled.sent[i].params, handled.inputs)

\* An order with a price and a tag of more than 20 characters was placed.
C23_Witness ==
    /\ handled.button = "place"
    /\ handled.inputs.price # ""
    /\ Len(handled.inputs.tag) > TagMax
    /\ Len(handled.sent) = 1
    /\ Len(handled.sent[1].params.tag) = TagMax
    /\ handled.shown = "success"


\* C24: the market-data helpers report failure as a value and every caller
\* handles both shapes of the result: a button that calls them ends by storing
\* the data or showing the error, never by failing.
C24_FailureIsAValue ==
    handled.button \in {"quote", "nifty", "hist"} =>
        handled.shown \in {"success", "info", "error"}

\* The two texts are equal up to the case of their letters.
SameIgnoringCase(x, y) ==
    x = y \/ {x, y} \in {{"a", "A"}, {"b", "B"}, {"n", "N"}}

\* The rows of the table that the lookup asks for.
Matching ==
    {i \in 1..Len(lookup.df) :
        /\ SameIgnoringCase(lookup.df[i].exchange, lookup.exchange)
        /\ SameIgnoringCase(lookup.df[i].tradingsymbol, lookup.symbol)}

\* C25: find_instrument_token returns the instrument_token of the first row
\* whose exchange and tradingsymbol equal the arguments ignoring letter case,
\* and None when the table is empty or no row matches.
C25_FirstMatchingRow ==
    lookup.called =>
        IF Matching = {} THEN lookup.result = None
        ELSE \E i \in Matching :
                 /\ \A j \in Matching : i <= j
                 /\ lookup.result = lookup.df[i].instrument_token

\* Two rows with different tokens match, the first in another case than
\* asked for; the token of the first is returned.
C25_Witness ==
    /\ lookup.called
    /\ Matching = {1, 2}
    /\ lookup.df[1].tradingsymbol # lookup.symbol
    /\ lookup.df[1].exchange # lookup.exchange
    /\ lookup.df[1].instrument_token # lookup.df[2].instrument_token
    /\ lookup.result = lookup.df[1].instrument_token

\* All three secrets of the search page are set.
SearchConfigured ==
    /\ search.secrets.indiav1_api_url # ""
    /\ search.secrets.indiav1_jwt_token # ""
    /\ search.secrets.indiav1_user_id # ""

\* The query has a character that is not a blank.
NonBlank == \E i \in 1..Len(search.query) : search.query[i] # " "

\* Every request sent carries the bearer token and the configured user id.
RequestsCarryIdentity ==
    \A i \in 1..Len(search.sent) :
        /\ search.sent[i].headers.Authorization =
               "Bearer " \o search.secrets.indiav1_jwt_token
        /\ search.sent[i].data.userId = search.secrets.indiav1_user_id

\* C26 as stated: a request is sent exactly when the form is submitted with
\* all secrets set and a non-blank query, and in all other cases an error is
\* shown.
C26_ErrorInAllOtherCases ==
    /\ Len(search.sent) = 1 <=> (search.submitted /\ SearchConfigured /\ NonBlank)
    /\ Len(search.sent) <= 1
    /\ RequestsCarryIdentity
    /\ ~(search.submitted /\ SearchConfigured /\ NonBlank) =>
           search.sent = <<>> /\ search.shown = "error"

\* C26: a search request is sent exactly when the form is submitted, the three
\* secrets are non-empty and the query is non-blank after stripping; every
\* request carries the bearer token and the configured user id; a submit with
\* a missing secret or a blank query sends nothing and shows an error, and a
\* run without a submit sends nothing.
C26_SearchSentWhenComplete ==
    /\ Len(search.sent) = 1 <=> (search.submitted /\ SearchConfigured /\ NonBlank)
    /\ Len(search.sent) <= 1
    /\ RequestsCarryIdentity
    /\ (search.submitted /\ ~(SearchConfigured /\ NonBlank)) =>
           search.sent = <<>> /\ search.shown = "error"
    /\ ~search.submitted => search.sent = <<>>

\* A query with blanks around a letter was sent with the second token.
C26_Witness ==
    /\ search.submitted
    /\ search.query = <<" ", "x", " ">>
    /\ Len(search.sent) = 1
    /\ search.sent[1].headers.Authorization = "Bearer jwt2"
    /\ search.sent[1].data.userId = "user1"

\* run_ticker threads that have not ended.
AliveThreads == {id \in DOMAIN threads : threads[id] # "done"}

\* KiteTicker objects whose websocket is connecting, open or closing.
ConnectedTickers ==
    {id \in DOMAIN tickers : tickers[id].ws \in {"connecting", "open", "closing"}}

\* C27: at most one run_ticker thread and at most one connected KiteTicker
\* are alive in a session at any time.
C27_OneTickerAlive ==
    /\ Cardinality(AliveThreads) <= 1
    /\ Cardinality(ConnectedTickers) <= 1


\* The flag kt_running of the session is down.
NotRunning == "kt_running" \in DOMAIN session_state /\ ~session_state["kt_running"]

\* Thread id is alive and Start has not been pressed since it was started.
LastAlive(id) ==
    /\ id \in DOMAIN threads
    /\ threads[id] # "done"
    /\ Len(tickers) = id

\* Thread id has ended, or Start was pressed again.
EndedOrRestarted(id) ==
    /\ id \in DOMAIN threads
    /\ threads[id] = "done" \/ Len(tickers) > id

\* The last thing the session handled was a press of Stop Ticker or on_close.
StopPressedOrClosed ==
    /\ "kt_status_message" \in DOMAIN session_state
    /\ session_state["kt_status_message"] \in {"stopped", "stop_failed", "closed"}

Buffer(state) == IF "kt_ticks" \in DOMAIN state THEN state["kt_ticks"] ELSE <<>>

\* C29: the tick buffer is bounded by its limit of 200 entries: no ticker
\* callback makes a buffer longer that already holds 200 entries or more.
C29_BufferKeepsLimit ==
    [][Len(Buffer(session_state)) >= TickLimit =>
           Len(Buffer(session_state')) <= Len(Buffer(session_state))]_vars

====
